---- MODULE Spec2Model ----
(***************************************************************************)
(* A model of ProjectService (cli/src/service/project.service.ts): the     *)
(* validators, generate (clone, clean, package.json rewrite, manifest.json *)
(* rewrite) and install, called a bounded number of times in one Node      *)
(* process.  Every asynchronous primitive (git.clone, fs.remove,           *)
(* fs.unlink, fs.writeJson, fs.pathExists, exec) is issued by one action   *)
(* and settled by another, so that everything that may happen between the  *)
(* two is an interleaving of the model.                                    *)
(*                                                                         *)
(* Strings are sequences of character codes, paths are sequences of path   *)
(* segments below the directory the process was started in, JSON objects   *)
(* are functions from keys to values.                                      *)
(***************************************************************************)
EXTENDS Integers, Sequences, FiniteSets, TLC

VARIABLES
    cwd,        \* process.cwd(), as a path
    fs,         \* the directories that exist: path -> directory content
    calls,      \* per caller: the ProjectService call it is in (or was last in)
    removals,   \* the fs.remove / fs.unlink promises of cleanDir still pending
    unhandled,  \* promises that rejected with no handler attached
    exitCode,   \* <<>> while the process runs, <<n>> after process.exit(n)
    ncalls      \* number of calls made so far

vars == <<cwd, fs, calls, removals, unhandled, exitCode, ncalls>>

----------------------------------------------------------------------------
(* Bounds of the model *)

MaxCalls == 3      \* calls of ProjectService methods per caller in one run
MaxDepth == 2      \* nesting of project directories clone may create
MaxNameLen == 2    \* length of the names tried against the name pattern
MaxFeatLen == 2    \* length of the feature lists tried on the manifest

----------------------------------------------------------------------------
(* Constants of project.service.ts *)

deleteFiles == {"README.md"}
deleteDirs == {".git", "cli"}

\* /^[a-z0-9-_]+$/ : the bounds of the two ranges and the two literals,
\* as character codes
Code_a == 97
Code_z == 122
Code_0 == 48
Code_9 == 57
CodeHyphen == 45
CodeUnderscore == 95

\* Feature (model/feature.ts)
POPUP == "POPUP"
OPTIONS == "OPTIONS"
TAB == "TAB"
Feature == {POPUP, OPTIONS, TAB}

\* Package (model/package.ts): this.pkg.name, a string
ToolName == <<116, 111, 111, 108>>

----------------------------------------------------------------------------
(* Strings and the project-name pattern *)

\* the class read with 9-_ as a third range
ClassMatch_RangeNineToUnderscore(c) ==
    \/ (Code_a <= c /\ c <= Code_z)
    \/ (Code_0 <= c /\ c <= Code_9)
    \/ (Code_9 <= c /\ c <= CodeUnderscore)

\* the character class [a-z0-9-_]
ClassMatch(c) ==
    \/ (Code_a <= c /\ c <= Code_z)
    \/ (Code_0 <= c /\ c <= Code_9)
    \/ c = CodeHyphen
    \/ c = CodeUnderscore

\* [a-z0-9-_]+ matched greedily from position i: the position after the
\* last character of the run
RECURSIVE PlusEnd(_, _)
PlusEnd(s, i) ==
    IF i <= Len(s) /\ ClassMatch(s[i]) THEN PlusEnd(s, i + 1) ELSE i

\* projectNameMatch.test(s): ^ anchors at position 1, + needs one character
\* at least, $ (no m flag) matches at the end of the input only
projectNameMatch(s) ==
    LET e == PlusEnd(s, 1) IN e > 1 /\ e = Len(s) + 1

invalidProjectName(name) == ~projectNameMatch(name)

\* the name taken below the start directory, whatever process.cwd() is
getProjectDir_NoCwd(name) == <<name>>

\* getProjectDir(name) = `${process.cwd()}/${name}`
getProjectDir(name) == Append(cwd, name)

----------------------------------------------------------------------------
(* JSON *)

\* A JavaScript value: its type and, for a string, its characters; an
\* object or array value is opaque and told apart by a number
Undefined == [t |-> "undefined", v |-> <<>>]
Null == [t |-> "null", v |-> <<>>]
Str(s) == [t |-> "string", v |-> s]
Obj(n) == [t |-> "object", v |-> <<n>>]

\* `Generated with ${this.pkg.name}`
GeneratedWith ==
    Str(<<71, 101, 110, 101, 114, 97, 116, 101, 100, 32, 119, 105, 116, 104, 32>>
        \o ToolName)

EmptyObj == [k \in {} |-> Undefined]

\* a spread in which the first object's value stays where both have the key
Spread_FirstWins(a, b) ==
    [k \in DOMAIN a \cup DOMAIN b |-> IF k \in DOMAIN a THEN a[k] ELSE b[k]]

\* { ...a, ...b }: the own keys of both, b's value where both have the key
Spread(a, b) ==
    [k \in DOMAIN a \cup DOMAIN b |-> IF k \in DOMAIN b THEN b[k] ELSE a[k]]

\* JSON.stringify, as fs.writeJson applies it: a property whose value is
\* undefined is left out
Stringify(obj) ==
    LET keep == {k \in DOMAIN obj : obj[k] # Undefined}
    IN  [k \in keep |-> obj[k]]

\* a missing property read as null
Get_NullWhenMissing(a, k) == IF k \in DOMAIN a THEN a[k] ELSE Null

\* a[k] of JavaScript: undefined when a has no own property k
Get(a, k) == IF k \in DOMAIN a THEN a[k] ELSE Undefined

\* only the first feature of the list looked at
Includes_FirstOnly(features, f) == Len(features) > 0 /\ features[1] = f

\* features.includes(f)
Includes(features, f) == \E i \in 1..Len(features) : features[i] = f

\* a file of the project directory: absent, or the JSON object it holds
NoFile == [present |-> FALSE, obj |-> EmptyObj]
File(obj) == [present |-> TRUE, obj |-> obj]

\* the overlay with options_page gated by POPUP
ManifestOverlay_OptionsByPopup(currentManifest, projectName, features) ==
    [k \in {"name", "short_name", "description",
            "browser_action", "options_page", "chrome_url_overrides"} |->
        CASE k = "name" -> Str(projectName)
          [] k = "short_name" -> Str(projectName)
          [] k = "description" -> GeneratedWith
          [] k = "browser_action" ->
                IF Includes(features, POPUP)
                THEN Get(currentManifest, "browser_action") ELSE Undefined
          [] k = "options_page" ->
                IF Includes(features, POPUP)
                THEN Get(currentManifest, "options_page") ELSE Undefined
          [] k = "chrome_url_overrides" ->
                IF Includes(features, TAB)
                THEN Get(currentManifest, "chrome_url_overrides") ELSE Undefined]

\* the object literal of writeManifestJson (lines 99-106)
ManifestOverlay(currentManifest, projectName, features) ==
    [k \in {"name", "short_name", "description",
            "browser_action", "options_page", "chrome_url_overrides"} |->
        CASE k = "name" -> Str(projectName)
          [] k = "short_name" -> Str(projectName)
          [] k = "description" -> GeneratedWith
          [] k = "browser_action" ->
                IF Includes(features, POPUP)
                THEN Get(currentManifest, "browser_action") ELSE Undefined
          [] k = "options_page" ->
                IF Includes(features, OPTIONS)
                THEN Get(currentManifest, "options_page") ELSE Undefined
          [] k = "chrome_url_overrides" ->
                IF Includes(features, TAB)
                THEN Get(currentManifest, "chrome_url_overrides") ELSE Undefined]

\* the overlay alone, without the spread of the current manifest
ManifestObject_OverlayOnly(currentManifest, projectName, features) ==
    ManifestOverlay(currentManifest, projectName, features)

\* the object writeManifestJson hands to fs.writeJson (line 108)
ManifestObject(currentManifest, projectName, features) ==
    Spread(currentManifest, ManifestOverlay(currentManifest, projectName, features))

\* the package object without `author: undefined`
PackageObject_AuthorKept(currentPackage, projectName) ==
    Spread(currentPackage,
           [k \in {"name", "description"} |->
               CASE k = "name" -> Str(projectName)
                 [] k = "description" -> GeneratedWith])

\* the object writePackageJson hands to fs.writeJson (lines 115-120)
PackageObject(currentPackage, projectName) ==
    Spread(currentPackage,
           [k \in {"name", "description", "author"} |->
               CASE k = "name" -> Str(projectName)
                 [] k = "description" -> GeneratedWith
                 [] k = "author" -> Undefined])

----------------------------------------------------------------------------
(* The file system below the start directory *)

CleanTargets == deleteDirs \cup deleteFiles

EmptyDir == [entries |-> {}, pkg |-> NoFile, manifest |-> NoFile]

\* the directory has no entry at all
IsEmptyDir(d) ==
    /\ fs[d] = EmptyDir
    /\ ~\E p \in DOMAIN fs : Len(p) = Len(d) + 1 /\ SubSeq(p, 1, Len(d)) = d

\* git.clone accepts a destination that does not exist or is empty
DirFree(d) == IF d \in DOMAIN fs THEN IsEmptyDir(d) ELSE TRUE

\* the file system with directory d holding content
WithDir(d, content) ==
    [p \in DOMAIN fs \cup {d} |-> IF p = d THEN content ELSE fs[p]]

----------------------------------------------------------------------------
(* Calls *)

Running == <<>>

NoCall ==
    [op |-> "none", pc |-> "idle", name |-> <<>>, features |-> <<>>,
     dir |-> <<>>, free |-> FALSE, rep |-> <<>>, result |-> "none",
     currentPackage |-> EmptyObj, currentManifest |-> EmptyObj, buf |-> EmptyObj]

\* what a call has reported so far, in order:
\*   "start"       spinner.start(...)
\*   "error:<k>"   log.error(...)
\*   "stop:done"   spinner.stop('done! ...')
\*   "stop"        spinner.stop()
ErrorEvents ==
    {"error:invalidName", "error:exists", "error:noFeatures", "error:clone",
     "error:require", "error:write", "error:exec"}

\* a caller may make a call when it is in none
CanCall(c) ==
    /\ exitCode = Running
    /\ calls[c].pc \in {"idle", "done"}
    /\ ncalls < MaxCalls * Cardinality(DOMAIN calls)

NewCall(op, name, features) ==
    [NoCall EXCEPT !.op = op, !.name = name, !.features = features]

\* the call returns (an async method: its promise resolves)
Resolved(call, events) ==
    [call EXCEPT !.pc = "done", !.rep = call.rep \o events, !.result = "resolved",
                 !.buf = EmptyObj]

\* the call throws (an async method: its promise rejects)
Rejected(call) ==
    [call EXCEPT !.pc = "done", !.result = "rejected"]

\* log.error(...); process.exit(1): the call never returns
Exited(call, event) ==
    [call EXCEPT !.pc = "exited", !.rep = call.rep \o <<event>>]

\* a catch block that stops the spinner and logs nothing
Caught_NotLogged(call, event) == Resolved(call, <<"stop">>)

\* the catch block of generate and of install: log.error(e); spinner.stop()
Caught(call, event) == Resolved(call, <<event, "stop">>)

----------------------------------------------------------------------------
(* validateName (lines 69-79) *)

ValidateNameStart(c, name) ==
    /\ CanCall(c)
    /\ ncalls' = ncalls + 1
    /\ LET call == NewCall("validateName", name, <<>>) IN
       IF invalidProjectName(name)
       THEN /\ calls' = [calls EXCEPT ![c] = Exited(call, "error:invalidName")]
            /\ exitCode' = <<1>>
       ELSE /\ calls' = [calls EXCEPT ![c] =
                            [call EXCEPT !.pc = "exists", !.dir = getProjectDir(name)]]
            /\ UNCHANGED exitCode
    /\ UNCHANGED <<cwd, fs, removals, unhandled>>

\* an existence check that answers false whatever the file system holds
ValidateNameExists_AlwaysAbsent(c) ==
    /\ exitCode = Running
    /\ calls[c].pc = "exists"
    /\ calls' = [calls EXCEPT ![c] = Resolved(calls[c], <<>>)]
    /\ UNCHANGED <<cwd, fs, removals, unhandled, exitCode, ncalls>>

\* fs.pathExists settles: true iff the path exists now
ValidateNameExists(c) ==
    /\ exitCode = Running
    /\ calls[c].pc = "exists"
    /\ IF calls[c].dir \in DOMAIN fs
       THEN /\ calls' = [calls EXCEPT ![c] = Exited(calls[c], "error:exists")]
            /\ exitCode' = <<1>>
       ELSE /\ calls' = [calls EXCEPT ![c] = Resolved(calls[c], <<>>)]
            /\ UNCHANGED exitCode
    /\ UNCHANGED <<cwd, fs, removals, unhandled, ncalls>>

(* validateFeatures (lines 81-86) *)

\* a list of one feature taken for none
NoFeatures_AtMostOne(features) == Len(features) <= 1

\* !features.length
NoFeatures(features) == Len(features) = 0

ValidateFeatures(c, features) ==
    /\ CanCall(c)
    /\ ncalls' = ncalls + 1
    /\ LET call == NewCall("validateFeatures", <<>>, features) IN
       IF NoFeatures(features)
       THEN /\ calls' = [calls EXCEPT ![c] = Exited(call, "error:noFeatures")]
            /\ exitCode' = <<1>>
       ELSE /\ calls' = [calls EXCEPT ![c] = Resolved(call, <<>>)]
            /\ UNCHANGED exitCode
    /\ UNCHANGED <<cwd, fs, removals, unhandled>>

----------------------------------------------------------------------------
(* generate (lines 31-48) *)

\* lines 32-38: spinner.start, git.clone issued; the clone tests its
\* destination as it starts
GenerateStart(c, name, features) ==
    /\ CanCall(c)
    /\ Len(cwd) < MaxDepth
    /\ ncalls' = ncalls + 1
    /\ calls' = [calls EXCEPT ![c] =
                    [NewCall("generate", name, features) EXCEPT
                        !.pc = "clone", !.dir = getProjectDir(name),
                        !.free = DirFree(getProjectDir(name)),
                        !.rep = <<"start">>]]
    /\ UNCHANGED <<cwd, fs, removals, unhandled, exitCode>>

\* the promises cleanDir creates (lines 90-91) in the call of caller c: one
\* per directory and file
CleanDirRemovals(c) ==
    {[dir |-> calls[c].dir, target |-> x, by |-> c] : x \in CleanTargets}

\* git.clone settles.  On success the destination holds the template (one
\* of templates), and line 39 calls cleanDir, which issues the removals.
CloneSettle(c, ok, templates) ==
    /\ exitCode = Running
    /\ calls[c].pc = "clone"
    /\ IF ok
       THEN /\ calls[c].free
            /\ \E tpl \in templates : fs' = WithDir(calls[c].dir, tpl)
            /\ removals' = removals \cup CleanDirRemovals(c)
            /\ calls' = [calls EXCEPT ![c].pc = "clean"]
       ELSE /\ calls' = [calls EXCEPT ![c] = Caught(calls[c], "error:clone")]
            /\ UNCHANGED <<fs, removals>>
    /\ UNCHANGED <<cwd, unhandled, exitCode, ncalls>>

\* Promise.all of line 89 is given two arrays, which are not promises: it
\* fulfils with them as they are, whatever the state of the promises inside.
CleanDirSettled(call) == TRUE

\* `await this.cleanDir(cloneDir)` resumes; line 40 calls writePackageJson:
\* require(packageJson) throws when the file is missing, else fs.writeJson
\* is issued with the patched object.
CleanDirAwaited(c) ==
    /\ exitCode = Running
    /\ calls[c].pc = "clean"
    /\ CleanDirSettled(calls[c])
    /\ LET file == fs[calls[c].dir].pkg IN
       IF file.present
       THEN calls' = [calls EXCEPT ![c].pc = "writePkg",
                                   ![c].currentPackage = file.obj,
                                   ![c].buf = PackageObject(file.obj, calls[c].name)]
       ELSE calls' = [calls EXCEPT ![c] = Caught(calls[c], "error:require")]
    /\ UNCHANGED <<cwd, fs, removals, unhandled, exitCode, ncalls>>

\* fs.writeJson of package.json settles; on success line 41 calls
\* writeManifestJson: require(manifestJson), then fs.writeJson is issued.
WritePackageSettle(c, ok) ==
    /\ exitCode = Running
    /\ calls[c].pc = "writePkg"
    /\ IF ok
       THEN LET d == calls[c].dir
                file == fs[d].manifest
            IN  /\ fs' = [fs EXCEPT ![d].pkg = File(Stringify(calls[c].buf))]
                /\ IF file.present
                   THEN calls' = [calls EXCEPT
                            ![c].pc = "writeManifest",
                            ![c].currentManifest = file.obj,
                            ![c].buf = ManifestObject(file.obj, calls[c].name,
                                                      calls[c].features)]
                   ELSE calls' = [calls EXCEPT ![c] =
                                     Caught(calls[c], "error:require")]
       ELSE /\ calls' = [calls EXCEPT ![c] = Caught(calls[c], "error:write")]
            /\ UNCHANGED fs
    /\ UNCHANGED <<cwd, removals, unhandled, exitCode, ncalls>>

\* fs.writeJson of manifest.json settles; on success line 43 reports it
WriteManifestSettle(c, ok) ==
    /\ exitCode = Running
    /\ calls[c].pc = "writeManifest"
    /\ IF ok
       THEN /\ fs' = [fs EXCEPT ![calls[c].dir].manifest =
                                    File(Stringify(calls[c].buf))]
            /\ calls' = [calls EXCEPT ![c] = Resolved(calls[c], <<"stop:done">>)]
       ELSE /\ calls' = [calls EXCEPT ![c] = Caught(calls[c], "error:write")]
            /\ UNCHANGED fs
    /\ UNCHANGED <<cwd, removals, unhandled, exitCode, ncalls>>

\* One promise of cleanDir settles.  fs.remove succeeds on an absent path,
\* fs.unlink fails on one; either may fail for another reason.  No handler
\* is attached to these promises: a rejection is left unhandled.
RemovalSettle(r, ok) ==
    /\ exitCode = Running
    /\ r \in removals
    /\ removals' = removals \ {r}
    /\ IF ok
       THEN /\ r.target \in deleteFiles => r.target \in fs[r.dir].entries
            /\ fs' = [fs EXCEPT ![r.dir].entries = @ \ {r.target}]
            /\ UNCHANGED unhandled
       ELSE /\ unhandled' = unhandled \cup {r}
            /\ UNCHANGED fs
    /\ UNCHANGED <<cwd, calls, exitCode, ncalls>>

----------------------------------------------------------------------------
(* install (lines 53-67) *)

\* install that runs the child without changing the working directory
InstallStart_NoChdir(c, name) ==
    /\ CanCall(c)
    /\ ncalls' = ncalls + 1
    /\ LET call == [NewCall("install", name, <<>>) EXCEPT
                       !.dir = getProjectDir(name)] IN
       IF call.dir \in DOMAIN fs
       THEN calls' = [calls EXCEPT ![c] =
                         [call EXCEPT !.pc = "exec", !.rep = <<"start">>]]
       ELSE calls' = [calls EXCEPT ![c] = Rejected(call)]
    /\ UNCHANGED <<cwd, fs, removals, unhandled, exitCode>>

\* lines 54-60: process.chdir (outside the try block), spinner.start,
\* exec issued
InstallStart(c, name) ==
    /\ CanCall(c)
    /\ ncalls' = ncalls + 1
    /\ LET call == [NewCall("install", name, <<>>) EXCEPT
                       !.dir = getProjectDir(name)] IN
       IF call.dir \in DOMAIN fs
       THEN /\ cwd' = call.dir
            /\ calls' = [calls EXCEPT ![c] =
                            [call EXCEPT !.pc = "exec", !.rep = <<"start">>]]
       ELSE /\ calls' = [calls EXCEPT ![c] = Rejected(call)]
            /\ UNCHANGED cwd
    /\ UNCHANGED <<fs, removals, unhandled, exitCode>>

\* the callback of exec('npm ci') runs (line 130); npm ci cannot succeed
\* in a directory without a package.json
ExecSettle(c, ok) ==
    /\ exitCode = Running
    /\ calls[c].pc = "exec"
    /\ IF ok
       THEN /\ fs[calls[c].dir].pkg.present
            /\ calls' = [calls EXCEPT ![c] = Resolved(calls[c], <<"stop:done">>)]
       ELSE calls' = [calls EXCEPT ![c] = Caught(calls[c], "error:exec")]
    /\ UNCHANGED <<cwd, fs, removals, unhandled, exitCode, ncalls>>

----------------------------------------------------------------------------
(* The service under a bounded number of calls *)

\* names and feature lists the callers pass
a == <<97>>
MyApp == <<77, 121, 32, 65, 112, 112>>
ValidatedNames == {a, MyApp}
ValidatedFeatures == {<<>>, <<POPUP, TAB>>}
ProjectNames == {a}
FeatureLists == {<<POPUP, TAB>>}

\* the template repository: what a successful clone leaves in the directory
TemplatePackage ==
    [k \in {"name", "version", "author"} |->
        CASE k = "name" -> Str(<<116>>) [] k = "version" -> Str(<<49>>)
          [] k = "author" -> Str(<<108>>)]
TemplateManifest ==
    [k \in {"name", "browser_action", "options_page", "chrome_url_overrides", "foo"} |->
        CASE k = "name" -> Str(<<116>>) [] k = "browser_action" -> Obj(1)
          [] k = "options_page" -> Str(<<111>>)
          [] k = "chrome_url_overrides" -> Obj(2) [] k = "foo" -> Str(<<98>>)]
Template(entries) ==
    [entries |-> entries, pkg |-> File(TemplatePackage),
     manifest |-> File(TemplateManifest)]
Templates == {Template(CleanTargets), Template(deleteDirs)}

Callers == DOMAIN calls

InitWith(callers) ==
    /\ cwd = <<>>
    /\ fs \in {[p \in {} |-> EmptyDir], [p \in {<<a>>} |-> EmptyDir]}
    /\ calls = [c \in callers |-> NoCall]
    /\ removals = {}
    /\ unhandled = {}
    /\ exitCode = Running
    /\ ncalls = 0

\* one caller, which awaits each call before it makes the next
Init == InitWith({"c1"})

Next ==
    \/ \E c \in Callers, name \in ValidatedNames : ValidateNameStart(c, name)
    \/ \E c \in Callers : ValidateNameExists(c)
    \/ \E c \in Callers, features \in ValidatedFeatures : ValidateFeatures(c, features)
    \/ \E c \in Callers, name \in ProjectNames, features \in FeatureLists :
          GenerateStart(c, name, features)
    \/ \E c \in Callers, ok \in BOOLEAN : CloneSettle(c, ok, Templates)
    \/ \E c \in Callers : CleanDirAwaited(c)
    \/ \E c \in Callers, ok \in BOOLEAN : WritePackageSettle(c, ok)
    \/ \E c \in Callers, ok \in BOOLEAN : WriteManifestSettle(c, ok)
    \/ \E r \in removals, ok \in BOOLEAN : RemovalSettle(r, ok)
    \/ \E c \in Callers, name \in ProjectNames : InstallStart(c, name)
    \/ \E c \in Callers, ok \in BOOLEAN : ExecSettle(c, ok)

Spec == Init /\ [][Next]_vars

----------------------------------------------------------------------------
(* The validators: validateName over every string up to MaxNameLen of     *)
(* these characters (the ends of the ranges of the pattern and their       *)
(* neighbours, the two literals, an upper-case letter, space, dot and line *)
(* feed), validateFeatures over every feature list up to MaxFeatLen        *)

CharCodes == {96, 97, 122, 123, 47, 48, 57, 58, 45, 95, 65, 32, 46, 10}

Strings(n) == UNION {[1..k -> CharCodes] : k \in 0..n}

FeatureSeqs(n) == UNION {[1..k -> Feature] : k \in 0..n}

NextValidate ==
    \/ \E c \in Callers : \E name \in Strings(MaxNameLen) : ValidateNameStart(c, name)
    \/ \E c \in Callers : ValidateNameExists(c)
    \/ \E c \in Callers : \E features \in FeatureSeqs(MaxFeatLen) :
          ValidateFeatures(c, features)

SpecValidate == Init /\ [][NextValidate]_vars

----------------------------------------------------------------------------
(* generate over every feature list up to MaxFeatLen and over templates    *)
(* whose manifest.json or package.json holds any combination of the keys   *)
(* the rewrites touch and one they do not.  The removals of cleanDir,      *)
(* which touch neither file, are left pending.                             *)

\* the objects with some of the keys of values, each with one of its values
RECURSIVE Objects(_)
Objects(values) ==
    IF DOMAIN values = {} THEN {EmptyObj}
    ELSE LET k == CHOOSE x \in DOMAIN values : TRUE
             rest == Objects([x \in DOMAIN values \ {k} |-> values[x]])
         IN  rest \cup {Spread(o, [x \in {k} |-> v]) : o \in rest, v \in values[k]}

ManifestValues ==
    [k \in {"name", "short_name", "description", "browser_action",
            "options_page", "chrome_url_overrides", "foo"} |->
        CASE k \in {"browser_action", "options_page", "chrome_url_overrides"} ->
                {Obj(1), Null}
          [] k = "foo" -> {Str(<<98>>), Null}
          [] OTHER -> {Str(<<111>>)}]

PackageValues ==
    [k \in {"name", "description", "author", "version", "dependencies"} |->
        CASE k = "version" -> {Str(<<49>>), Null}
          [] OTHER -> {Str(<<111>>)}]

SourceManifests == Objects(ManifestValues)

SourcePackages == Objects(PackageValues)

JsonTemplates ==
    {[Template(CleanTargets) EXCEPT !.manifest = File(m)] : m \in SourceManifests}
    \cup {[Template(CleanTargets) EXCEPT !.pkg = File(p)] : p \in SourcePackages}
    \cup {[Template(CleanTargets) EXCEPT !.manifest = NoFile],
          [Template(CleanTargets) EXCEPT !.pkg = NoFile]}

\* one call of generate, in an empty start directory
InitJson == Init /\ DOMAIN fs = {}

MyDashApp == <<109, 121, 45, 97, 112, 112>>
JsonNames == {a, MyApp, MyDashApp}

NextJson ==
    \/ \E c \in Callers, name \in JsonNames, features \in FeatureSeqs(MaxFeatLen) :
          ncalls = 0 /\ GenerateStart(c, name, features)
    \/ \E c \in Callers, ok \in BOOLEAN : CloneSettle(c, ok, JsonTemplates)
    \/ \E c \in Callers : CleanDirAwaited(c)
    \/ \E c \in Callers, ok \in BOOLEAN : WritePackageSettle(c, ok)
    \/ \E c \in Callers, ok \in BOOLEAN : WriteManifestSettle(c, ok)

SpecJson == InitJson /\ [][NextJson]_vars

(***************************************************************************)
(* Two invocations of the tool for the same project name whose steps       *)
(* interleave: each validates the name and, when the check passes, calls   *)
(* generate.  Nothing in the service orders the steps of one against the   *)
(* steps of the other.                                                     *)
(***************************************************************************)
InitRace == InitWith({"c1", "c2"})

NextRace ==
    \/ \E c \in Callers : calls[c].op = "none" /\ ValidateNameStart(c, a)
    \/ \E c \in Callers : ValidateNameExists(c)
    \/ \E c \in Callers, features \in FeatureLists :
          /\ calls[c].op = "validateName"
          /\ GenerateStart(c, a, features)
    \/ \E c \in Callers, ok \in BOOLEAN : CloneSettle(c, ok, Templates)
    \/ \E c \in Callers : CleanDirAwaited(c)
    \/ \E c \in Callers, ok \in BOOLEAN : WritePackageSettle(c, ok)
    \/ \E c \in Callers, ok \in BOOLEAN : WriteManifestSettle(c, ok)
    \/ \E r \in removals, ok \in BOOLEAN : RemovalSettle(r, ok)

SpecRace == InitRace /\ [][NextRace]_vars

----------------------------------------------------------------------------
(* Properties *)

Range(seq) == {seq[i] : i \in 1..Len(seq)}

Errors(call) == {i \in 1..Len(call.rep) : call.rep[i] \in ErrorEvents}

\* generate has reported success: spinner.stop('done! created extension ...')
GenerateSucceeded(call) ==
    /\ call.op = "generate"
    /\ call.pc = "done"
    /\ call.rep = <<"start", "stop:done">>

\* C1: step 4 of generate (the rewrite of package.json) is never under way
\* while a removal issued by the clean phase of that call is still pending.
C1_CleanIsBarrier ==
    \A c \in Callers :
        (calls[c].op = "generate" /\ calls[c].pc = "writePkg")
            => ~\E r \in removals : r.dir = calls[c].dir

\* C2: every failure of a step of generate, the clean-phase removals
\* included, is caught by generate: a finished generate has resolved, it
\* either reported success or logged one error, the process was not exited,
\* and no rejection is left unhandled.
C2_EveryFailureCaught ==
    /\ unhandled = {}
    /\ \A c \in Callers :
          (calls[c].op = "generate" /\ calls[c].pc = "done") =>
              /\ calls[c].result = "resolved"
              /\ exitCode = Running
              /\ GenerateSucceeded(calls[c]) \/ Cardinality(Errors(calls[c])) = 1

\* C3: install never propagates an error to its caller: its promise never
\* rejects.
C3_InstallNeverRejects ==
    \A c \in Callers : calls[c].op = "install" => calls[c].result # "rejected"

\* C4: when the child process of install settles, install resolves and the
\* process goes on running; if the child failed the error is logged and
\* the spinner stopped without the success message, if it succeeded the
\* success message is reported and no error is logged.
C4_InstallChildFailureLogged ==
    [][\A c \in Callers :
          (calls[c].pc = "exec" /\ calls'[c] # calls[c]) =>
              /\ calls'[c].pc = "done"
              /\ calls'[c].result = "resolved"
              /\ exitCode' = Running
              /\ ExecSettle(c, FALSE) =>
                    calls'[c].rep = <<"start", "error:exec", "stop">>
              /\ ExecSettle(c, TRUE) =>
                    calls'[c].rep = <<"start", "stop:done">>]_vars

C4_Witness ==
    \E c \in Callers :
        /\ calls[c].op = "install"
        /\ calls[c].pc = "done"
        /\ calls[c].rep = <<"start", "error:exec", "stop">>
        /\ cwd = calls[c].dir

\* C5: whenever generate has reported success, none of .git, cli and
\* README.md is present in the target directory.
C5_CleanOnSuccess ==
    \A c \in Callers :
        GenerateSucceeded(calls[c]) => fs[calls[c].dir].entries = {}

\* C6: validateName logs the invalid-name error and exits with status 1
\* exactly for the names that are not a non-empty string of lower-case
\* letters, digits, hyphens and underscores; the other names pass the
\* pattern check.
AllowedCodes == (97..122) \cup (48..57) \cup {45, 95}

WellFormedName(name) == name # <<>> /\ Range(name) \subseteq AllowedCodes

RejectedOnPattern(call) ==
    /\ call.pc = "exited"
    /\ call.rep = <<"error:invalidName">>
    /\ exitCode = <<1>>

C6_PatternExact ==
    \A c \in Callers :
        calls[c].op = "validateName" =>
            /\ RejectedOnPattern(calls[c]) <=> ~WellFormedName(calls[c].name)
            /\ WellFormedName(calls[c].name) =>
                  "error:invalidName" \notin Range(calls[c].rep)

\* a name ending in a line feed is rejected
C6_Witness ==
    \E c \in Callers :
        /\ calls[c].op = "validateName"
        /\ calls[c].name = <<97, 10>>
        /\ RejectedOnPattern(calls[c])

\* C7: for a name that matches the pattern, when the existence check of
\* validateName settles: if <cwd>/<name> exists then the already-exists
\* error is logged and the process exits with status 1, else the call
\* returns with nothing logged and the process running; the check is made
\* once.
C7_ExistsCheck ==
    [][\A c \in Callers :
          (calls[c].pc = "exists" /\ calls'[c] # calls[c]) =>
              /\ WellFormedName(calls[c].name)
              /\ calls[c].dir = Append(cwd, calls[c].name)
              /\ IF calls[c].dir \in DOMAIN fs
                 THEN /\ calls'[c].pc = "exited"
                      /\ calls'[c].rep = <<"error:exists">>
                      /\ exitCode' = <<1>>
                 ELSE /\ calls'[c].pc = "done"
                      /\ calls'[c].result = "resolved"
                      /\ calls'[c].rep = <<>>
                      /\ exitCode' = Running]_vars

\* the project generate created is found by a later validateName
C7_Witness ==
    \E c \in Callers :
        /\ calls[c].op = "validateName"
        /\ calls[c].pc = "exited"
        /\ calls[c].rep = <<"error:exists">>
        /\ fs[calls[c].dir].pkg.present

\* C8: validateFeatures logs an error and exits with status 1 iff the
\* feature list is empty; for a non-empty list it returns with nothing
\* logged and the process running.
C8_FeaturesNonEmpty ==
    \A c \in Callers :
        calls[c].op = "validateFeatures" =>
            IF calls[c].features = <<>>
            THEN /\ calls[c].pc = "exited"
                 /\ calls[c].rep = <<"error:noFeatures">>
                 /\ exitCode = <<1>>
            ELSE /\ calls[c].pc = "done"
                 /\ calls[c].result = "resolved"
                 /\ calls[c].rep = <<>>
                 /\ exitCode = Running

C8_Witness ==
    \E c \in Callers :
        /\ calls[c].op = "validateFeatures"
        /\ calls[c].features = <<POPUP>>
        /\ calls[c].pc = "done"

\* the feature that gates each key of the manifest
Gate ==
    [k \in {"browser_action", "options_page", "chrome_url_overrides"} |->
        CASE k = "browser_action" -> POPUP
          [] k = "options_page" -> OPTIONS
          [] k = "chrome_url_overrides" -> TAB]

SixKeys == DOMAIN Gate \cup {"name", "short_name", "description"}

\* the manifest.json the call wrote
Written(call) == fs[call.dir].manifest.obj

\* C9: when generate has written the manifest from a source manifest with
\* all three gated keys, the written manifest has browser_action iff POPUP
\* is selected, options_page iff OPTIONS is, chrome_url_overrides iff TAB
\* is; a key that is kept has the value of the source, and no key is
\* written with an undefined value.
C9_GatingExact ==
    \A c \in Callers :
        (GenerateSucceeded(calls[c])
         /\ DOMAIN Gate \subseteq DOMAIN calls[c].currentManifest) =>
            /\ \A k \in DOMAIN Gate :
                  /\ k \in DOMAIN Written(calls[c])
                        <=> Gate[k] \in Range(calls[c].features)
                  /\ k \in DOMAIN Written(calls[c]) =>
                        Written(calls[c])[k] = calls[c].currentManifest[k]
            /\ \A k \in DOMAIN Written(calls[c]) :
                  Written(calls[c])[k].t # "undefined"

\* only TAB selected, all three keys in the source: chrome_url_overrides
\* alone is written
C9_Witness ==
    \E c \in Callers :
        /\ GenerateSucceeded(calls[c])
        /\ DOMAIN Gate \subseteq DOMAIN calls[c].currentManifest
        /\ calls[c].features = <<TAB>>
        /\ DOMAIN Written(calls[c]) \cap DOMAIN Gate = {"chrome_url_overrides"}

\* C10: when generate has written the manifest, every key of the source
\* manifest outside the six keys of the overlay is written with the value
\* it had, and no key outside the source and the six is written.
C10_UnrelatedKeysKept ==
    \A c \in Callers :
        GenerateSucceeded(calls[c]) =>
            /\ \A k \in DOMAIN calls[c].currentManifest \ SixKeys :
                  /\ k \in DOMAIN Written(calls[c])
                  /\ Written(calls[c])[k] = calls[c].currentManifest[k]
            /\ DOMAIN Written(calls[c])
                  \subseteq DOMAIN calls[c].currentManifest \cup SixKeys

C10_Witness ==
    \E c \in Callers :
        /\ GenerateSucceeded(calls[c])
        /\ calls[c].name = MyApp
        /\ "foo" \in DOMAIN calls[c].currentManifest
        /\ calls[c].currentManifest["foo"] = Null
        /\ Written(calls[c])["foo"] = Null

\* the package.json of the call's directory, once the call has written it
PackageWritten(call) ==
    /\ call.op = "generate"
    /\ call.pc = "writeManifest" \/ GenerateSucceeded(call)

WrittenPackage(call) == fs[call.dir].pkg.obj

\* C11: when generate has written package.json, its name is the project
\* name and its description "Generated with <toolName>", it has no author
\* key, and every other key of the source package.json is there with the
\* value it had, and no other key.
C11_PackageRewrite ==
    \A c \in Callers :
        PackageWritten(calls[c]) =>
            LET src == calls[c].currentPackage
                out == WrittenPackage(calls[c])
            IN  /\ DOMAIN out =
                      (DOMAIN src \cup {"name", "description"}) \ {"author"}
                /\ out["name"] = Str(calls[c].name)
                /\ out["description"] = GeneratedWith
                /\ \A k \in DOMAIN src \ {"name", "description", "author"} :
                      out[k] = src[k]

\* a source with name, description, author and a null version
C11_Witness ==
    \E c \in Callers :
        /\ PackageWritten(calls[c])
        /\ calls[c].name = MyDashApp
        /\ {"name", "description", "author", "version"}
              \subseteq DOMAIN calls[c].currentPackage
        /\ calls[c].currentPackage["version"] = Null
        /\ WrittenPackage(calls[c])["version"] = Null
        /\ "author" \notin DOMAIN WrittenPackage(calls[c])

\* the source and the result of the scenario of the specification
ScenarioSource ==
    [k \in {"browser_action", "options_page", "chrome_url_overrides", "foo"} |->
        IF k = "foo" THEN Str(<<98>>) ELSE Obj(1)]

ScenarioResult ==
    [k \in {"name", "short_name", "description",
            "browser_action", "chrome_url_overrides", "foo"} |->
        CASE k \in {"name", "short_name"} -> Str(MyDashApp)
          [] k = "description" -> GeneratedWith
          [] k = "foo" -> Str(<<98>>)
          [] OTHER -> Obj(1)]

\* C12: in the manifest generate has written, name and short_name are the
\* project name and description is "Generated with <toolName>", whatever
\* the source held for them; for the name my-app, the features POPUP and
\* TAB and the source {browser_action, options_page, chrome_url_overrides,
\* foo} the manifest written is exactly {name, short_name, description,
\* browser_action, chrome_url_overrides, foo}.
C12_NamesAndScenario ==
    \A c \in Callers :
        GenerateSucceeded(calls[c]) =>
            /\ Written(calls[c])["name"] = Str(calls[c].name)
            /\ Written(calls[c])["short_name"] = Str(calls[c].name)
            /\ Written(calls[c])["description"] = GeneratedWith
            /\ (/\ calls[c].name = MyDashApp
                /\ Range(calls[c].features) = {POPUP, TAB}
                /\ calls[c].currentManifest = ScenarioSource)
                  => Written(calls[c]) = ScenarioResult

\* the scenario of the specification
C12_Witness ==
    \E c \in Callers :
        /\ GenerateSucceeded(calls[c])
        /\ calls[c].name = MyDashApp
        /\ calls[c].features = <<POPUP, TAB>>
        /\ calls[c].currentManifest = ScenarioSource
        /\ Written(calls[c]) = ScenarioResult

\* C13: the manifest generate has written is the one any feature list with
\* the same set of features gives, for the same project name and source.
C13_FeaturesAsSet ==
    \A c \in Callers :
        GenerateSucceeded(calls[c]) =>
            \A g \in FeatureSeqs(MaxFeatLen) :
                Range(g) = Range(calls[c].features) =>
                    Written(calls[c]) =
                        Stringify(ManifestObject(calls[c].currentManifest,
                                                 calls[c].name, g))

\* a list in another order than the enum's, and with the gated keys to show it
C13_Witness ==
    \E c \in Callers :
        /\ GenerateSucceeded(calls[c])
        /\ calls[c].features = <<TAB, POPUP>>
        /\ DOMAIN Written(calls[c]) \cap DOMAIN Gate
              = {"browser_action", "chrome_url_overrides"}

\* C18: every gated key of the manifest generate has written was a key of
\* the source manifest and has the source's value; a selected feature whose
\* key the source lacks gives a manifest without that key.
C18_NoInventedKey ==
    \A c \in Callers :
        GenerateSucceeded(calls[c]) =>
            \A k \in DOMAIN Gate :
                IF k \in DOMAIN calls[c].currentManifest
                THEN k \in DOMAIN Written(calls[c]) =>
                        Written(calls[c])[k] = calls[c].currentManifest[k]
                ELSE k \notin DOMAIN Written(calls[c])

\* POPUP selected, no browser_action in the source, none written
C18_Witness ==
    \E c \in Callers :
        /\ GenerateSucceeded(calls[c])
        /\ POPUP \in Range(calls[c].features)
        /\ "browser_action" \notin DOMAIN calls[c].currentManifest
        /\ "browser_action" \notin DOMAIN Written(calls[c])

\* the removals of the clean phase in directory d that have not succeeded:
\* still pending, or failed
Unsettled(d) == {r \in removals : r.dir = d}
Failed(d) == {r \in unhandled : r.dir = d}

GenerateSteps ==
    {<<"clone", "clean">>, <<"clone", "done">>, <<"clean", "writePkg">>,
     <<"clean", "done">>, <<"writePkg", "writeManifest">>,
     <<"writePkg", "done">>, <<"writeManifest", "done">>}

\* C14: a run of generate goes through clone, clean, package.json rewrite
\* and manifest.json rewrite in this order, each once; a step starts only
\* when the step before it has completed successfully (the package.json
\* rewrite only when every removal of the clean phase has succeeded); a
\* run that ends in failure changes nothing as it ends (no later step, no
\* rollback), and a failed clone issues no removal and writes no file.
C14_StepsInOrder ==
    [][\A c \in Callers :
          (/\ calls[c].op = "generate"
           /\ calls[c].pc # "done"
           /\ calls'[c] # calls[c]) =>
              /\ <<calls[c].pc, calls'[c].pc>> \in GenerateSteps
              /\ (calls[c].pc = "clone" /\ calls'[c].pc = "done") =>
                    fs' = fs /\ removals' = removals
              /\ calls'[c].pc = "writePkg" =>
                    Unsettled(calls[c].dir) \cup Failed(calls[c].dir) = {}
              /\ (calls'[c].pc = "done" /\ ~GenerateSucceeded(calls'[c])) =>
                    fs' = fs /\ removals' = removals]_vars

\* C15: when the unlink of README.md has failed because the file is not
\* there, a finished generate in that directory has logged an error and
\* has not reported success.
C15_AbsentTargetReported ==
    \A c \in Callers :
        (/\ calls[c].op = "generate"
         /\ calls[c].pc = "done"
         /\ \E r \in Failed(calls[c].dir) :
                r.target \in deleteFiles /\ r.target \notin fs[r.dir].entries) =>
            /\ ~GenerateSucceeded(calls[c])
            /\ Errors(calls[c]) # {}

\* C16: a finished generate has reported one outcome: the success message
\* and no error, or one error and the spinner stopped without the message;
\* success is reported only when the removals of the clean phase have all
\* succeeded, so that no error of the run is left to surface after it.
C16_OneOutcome ==
    \A c \in Callers :
        (calls[c].op = "generate" /\ calls[c].pc = "done") =>
            IF GenerateSucceeded(calls[c])
            THEN Unsettled(calls[c].dir) \cup Failed(calls[c].dir) = {}
            ELSE /\ Len(calls[c].rep) = 3
                 /\ calls[c].rep[1] = "start"
                 /\ calls[c].rep[2] \in ErrorEvents
                 /\ calls[c].rep[3] = "stop"

\* C19: the working directory changes only when install starts, to
\* <cwd>/<projectName>; it is that directory when install returns, whether
\* npm ci succeeded or failed, and is not restored; every call that starts
\* takes its directory below the working directory of that moment.
C19_InstallMovesCwd ==
    [][/\ cwd' # cwd =>
            \E c \in Callers :
                /\ calls[c].pc \in {"idle", "done"}
                /\ calls'[c].op = "install"
                /\ calls'[c].pc = "exec"
                /\ cwd' = Append(cwd, calls'[c].name)
       /\ \A c \in Callers :
            /\ (calls[c].pc = "exec" /\ calls'[c].pc = "done") =>
                  /\ cwd = calls[c].dir
                  /\ cwd' = cwd
            /\ (/\ calls[c].pc \in {"idle", "done"}
                /\ calls'[c] # calls[c]
                /\ calls'[c].op \in {"validateName", "generate", "install"}
                /\ calls'[c].pc # "exited") =>
                  calls'[c].dir = Append(cwd, calls'[c].name)]_vars

\* after an install, validateName has looked for the name below the project
\* directory
C19_Witness ==
    \E c \in Callers :
        /\ cwd = <<a>>
        /\ calls[c].op = "validateName"
        /\ calls[c].pc = "done"
        /\ calls[c].dir = <<a, a>>

\* a call of generate that has got as far as patching package.json
Patching(call) ==
    /\ call.op = "generate"
    /\ \/ call.pc \in {"writePkg", "writeManifest"}
       \/ call.pc = "done" /\ GenerateSucceeded(call)

\* C17: two invocations for the same project name never both pass
\* validateName and both go on to clone into and patch the same directory.
C17_ExclusiveOwner ==
    \A c1, c2 \in Callers :
        (/\ c1 # c2
         /\ calls[c1].dir = calls[c2].dir
         /\ calls[c1].op = "generate"
         /\ calls[c2].op = "generate") =>
            ~(Patching(calls[c1]) /\ Patching(calls[c2]))

\* C17, as the code has it: the directory is guarded by the existence check
\* of validateName alone, at the moment the check settles.  A check that
\* settles when the directory exists, created before the run or by the
\* clone of the other invocation meanwhile, exits the process with status
\* 1, and no call of generate is made by an invocation whose check has not
\* passed; nothing more keeps two invocations apart.
C17_GuardedByCheckOnly ==
    [][\A c \in Callers :
          /\ (/\ calls[c].pc = "exists"
              /\ calls'[c] # calls[c]
              /\ calls[c].dir \in DOMAIN fs) =>
                /\ exitCode' = <<1>>
                /\ \A d \in Callers : calls'[d].pc # "clone" \/ calls[d].pc = "clone"
          /\ (calls'[c].op = "generate" /\ calls[c].op # "generate") =>
                /\ calls[c].op = "validateName"
                /\ calls[c].result = "resolved"
                /\ calls[c].dir = calls'[c].dir]_vars

\* one invocation's check settled after the clone of the other had created
\* the directory: it has exited, the other is in its clean phase
C17_Witness ==
    \E c1, c2 \in Callers :
        /\ calls[c1].op = "generate"
        /\ calls[c1].pc = "clean"
        /\ fs[calls[c1].dir].pkg.present
        /\ calls[c2].op = "validateName"
        /\ calls[c2].pc = "exited"
        /\ calls[c2].dir = calls[c1].dir
        /\ "error:exists" \in Range(calls[c2].rep)

====
